---- MODULE Spec2Model ----
(***************************************************************************)
(* Model of the ZeroMQ wind farm control server of                         *)
(* src/wind_farm_controller/wfc_zmq_server.py: the request/reply loop      *)
(* (runserver), the wire codec (_get_measurements, _send_setpoints) and    *)
(* the connection registry (wfc_zmq_connections).                          *)
(*                                                                         *)
(* Numbers: a Python float x is the integer x * Scale (Scale = 10^6), so   *)
(* one digit more than the reply format keeps; raw messages are sequences  *)
(* of one-character strings; a Python dict is the sequence of its          *)
(* [k, v] items in insertion order.                                        *)
(***************************************************************************)
EXTENDS Integers, Sequences, FiniteSets, TLC

\* ------------------------------------------------------------ bounds
MaxId == 2          \* turbine ids 1..MaxId send well-formed requests
MaxTime == 2        \* reported Time values 1..MaxTime
MaxRequests == 3    \* requests the process's servers receive at most
MaxInstances == 2   \* server objects constructed in the process at most
MemorySize == 2     \* memory_size of the wfc_controller that is exercised
UpdateRate == 2     \* its update_rate, in seconds of reported time
MaxSpan == 3        \* its calls report times from one second before the
                    \* start of wake steering to MaxSpan seconds later
MaxCalls == 4       \* calls of wfc_controller.update at most

\* ------------------------------------------------------------ schema
\* wfc_interface["measurements"] and wfc_interface["setpoints"], shortened
\* to the channels the server itself reads and to two setpoint channels.
MeasSchema == <<"ZMQ_ID", "iStatus", "Time">>
SetpointSchema == <<"ZMQ_YawOffset", "ZMQ_PitOffset(1)">>

\* f"{s:016.5f}": minimum width and digits after the decimal point
Width == 16
Decimals == 5

RECURSIVE Pow10(_)
Pow10(n) == IF n = 0 THEN 1 ELSE 10 * Pow10(n - 1)

\* resolution of the modelled floats: one decimal more than the format keeps
Scale == Pow10(Decimals + 1)

Abs(x) == IF x < 0 THEN -x ELSE x

\* ------------------------------------------------------------ characters
NUL == "NUL"        \* the character "\x00"
SP == " "
COMMA == ","
Digits == <<"0", "1", "2", "3", "4", "5", "6", "7", "8", "9">>

IsDigit(c) == \E i \in 1..10 : Digits[i] = c
DigitVal(c) == (CHOOSE i \in 1..10 : Digits[i] = c) - 1

RECURSIVE NatOf(_)
\* value of a sequence of digit characters (0 for the empty one)
NatOf(ds) ==
    IF ds = <<>> THEN 0
    ELSE 10 * NatOf(SubSeq(ds, 1, Len(ds) - 1)) + DigitVal(ds[Len(ds)])

RECURSIVE NatDigits(_)
\* decimal digits of a natural number, "0" for 0
NatDigits(n) ==
    IF n < 10 THEN <<Digits[n + 1]>>
    ELSE NatDigits(n \div 10) \o <<Digits[(n % 10) + 1]>>

RECURSIVE Zeros(_)
Zeros(n) == IF n <= 0 THEN <<>> ELSE <<"0">> \o Zeros(n - 1)

\* ------------------------------------------------------------ python dict
\* dict[k] for a key the dict holds
DictKeys(d) == [i \in 1..Len(d) |-> d[i].k]
DictValues(d) == [i \in 1..Len(d) |-> d[i].v]
DictHas(d, key) == \E i \in 1..Len(d) : d[i].k = key
DictGet(d, key) == d[CHOOSE i \in 1..Len(d) : d[i].k = key].v
\* d[key] = val: overwrite in place, or append a new item
DictSet(d, key, val) ==
    IF DictHas(d, key)
    THEN [i \in 1..Len(d) |-> IF d[i].k = key THEN [k |-> key, v |-> val] ELSE d[i]]
    ELSE Append(d, [k |-> key, v |-> val])
\* {s: 0.0 for s in schema}
ZeroDict(schema) == [i \in 1..Len(schema) |-> [k |-> schema[i], v |-> 0]]

\* ------------------------------------------------------------ decode
\* str.replace("\x00", "")
StripNul(s) == SelectSeq(s, LAMBDA c : c # NUL)

RECURSIVE Split(_)
\* str.split(","): always at least one field, "" gives [""]
Split(s) ==
    IF \A i \in 1..Len(s) : s[i] # COMMA THEN <<s>>
    ELSE LET i == CHOOSE j \in 1..Len(s) :
                      s[j] = COMMA /\ \A h \in 1..(j - 1) : s[h] # COMMA
         IN  <<SubSeq(s, 1, i - 1)>> \o Split(SubSeq(s, i + 1, Len(s)))

RECURSIVE LStrip(_)
LStrip(s) == IF s # <<>> /\ Head(s) = SP THEN LStrip(Tail(s)) ELSE s
RECURSIVE RStrip(_)
RStrip(s) ==
    IF s # <<>> /\ s[Len(s)] = SP THEN RStrip(SubSeq(s, 1, Len(s) - 1)) ELSE s

\* float(token): surrounding blanks dropped, an optional sign, digits with at
\* most one decimal point and at least one digit; anything else is a
\* ValueError (ok = FALSE). Exponents, inf and nan are not in the inputs.
ParseFloat(tok) ==
    LET t == RStrip(LStrip(tok))
        signed == t # <<>> /\ Head(t) \in {"-", "+"}
        neg == t # <<>> /\ Head(t) = "-"
        body == IF signed THEN Tail(t) ELSE t
        dots == {i \in 1..Len(body) : body[i] = "."}
        dot == IF dots = {} THEN Len(body) + 1
               ELSE CHOOSE i \in dots : \A j \in dots : i <= j
        ip == SubSeq(body, 1, dot - 1)
        fp == SubSeq(body, dot + 1, Len(body))
        ok == /\ Cardinality(dots) <= 1
              /\ \A i \in 1..Len(ip) : IsDigit(ip[i])
              /\ \A i \in 1..Len(fp) : IsDigit(fp[i])
              /\ Len(ip) + Len(fp) >= 1
        fr == SubSeq(fp \o Zeros(Decimals + 1), 1, Decimals + 1)
        mag == NatOf(ip) * Scale + NatOf(fr)
    IN  [ok |-> ok, val |-> IF ok THEN (IF neg THEN -mag ELSE mag) ELSE 0]

\* int(x) of a float: truncation towards zero
IntOf(x) == IF x < 0 THEN -((-x) \div Scale) ELSE x \div Scale

\* ------------------------------------------------------------ encode
\* f"{v:016.5f}": rounded to Decimals digits, the sign of a negative value
\* kept also when it rounds to zero, zero-padded after the sign to Width.
Format(v) ==
    LET unit == Scale \div Pow10(Decimals)
        a == Abs(v)
        lo == a \div unit
        r == a % unit
        q == IF 2 * r > unit \/ (2 * r = unit /\ lo % 2 = 1) THEN lo + 1 ELSE lo
        ipart == NatDigits(q \div Pow10(Decimals))
        fdig == NatDigits(q % Pow10(Decimals))
        fpart == Zeros(Decimals - Len(fdig)) \o fdig
        body == ipart \o <<".">> \o fpart
        sign == IF v < 0 THEN <<"-">> ELSE <<>>
    IN  sign \o Zeros(Width - Len(sign) - Len(body)) \o body

RECURSIVE Join(_, _)
\* sep.join(parts)
Join(parts, sep) ==
    IF parts = <<>> THEN <<>>
    ELSE IF Len(parts) = 1 THEN parts[1]
    ELSE parts[1] \o sep \o Join(Tail(parts), sep)

\* join of the formatted values of a setpoint dict, in the dict's order:
\* ", ".join([f"{s:016.5f}" for s in setpoints[id].values()])
Encode(d) == Join([i \in 1..Len(d) |-> Format(d[i].v)], <<COMMA, SP>>)

\* faulty variant: fields the message lacks read as 0.0
DecodeLenient(msg) ==
    LET toks == Split(StripNul(msg))
        meas_float == [i \in 1..Len(toks) |-> ParseFloat(toks[i])]
    IN  IF \E i \in 1..Len(toks) : ~meas_float[i].ok
        THEN [ok |-> FALSE, error |-> "ValueError", dict |-> <<>>]
        ELSE [ok |-> TRUE, error |-> "none",
              dict |-> [i \in 1..Len(MeasSchema) |->
                           [k |-> MeasSchema[i],
                            v |-> IF i <= Len(toks) THEN meas_float[i].val ELSE 0]]]

\* lines 203-210 of _get_measurements: every token is converted with float()
\* first (ValueError), then schema position i reads meas_float[i] (IndexError
\* when the message has fewer fields than the schema; further fields are
\* never read).
Decode(msg) ==
    LET toks == Split(StripNul(msg))
        meas_float == [i \in 1..Len(toks) |-> ParseFloat(toks[i])]
    IN  IF \E i \in 1..Len(toks) : ~meas_float[i].ok
        THEN [ok |-> FALSE, error |-> "ValueError", dict |-> <<>>]
        ELSE IF Len(toks) < Len(MeasSchema)
        THEN [ok |-> FALSE, error |-> "IndexError", dict |-> <<>>]
        ELSE [ok |-> TRUE, error |-> "none",
              dict |-> [i \in 1..Len(MeasSchema) |->
                           [k |-> MeasSchema[i], v |-> meas_float[i].val]]]

\* ------------------------------------------------------------ inputs
IntStr(n) == (IF n < 0 THEN <<"-">> ELSE <<>>) \o NatDigits(Abs(n))

\* requests of the turbines 1..MaxId: id, iStatus, Time; a running turbine
\* (iStatus 1) reports any of the times, its last call (iStatus -1) the last
WellFormed ==
    {Join(<<IntStr(i), IntStr(1), IntStr(t)>>, <<COMMA>>) :
        i \in 1..MaxId, t \in 1..MaxTime}
    \cup {Join(<<IntStr(i), IntStr(-1), IntStr(MaxTime)>>, <<COMMA>>) :
        i \in 1..MaxId}

\* other payloads a peer can put on the wire
Variants ==
    { <<"1", COMMA, "1">>,                                   \* a field short
      <<"1", COMMA, "1", COMMA, "1", COMMA, "7">>,           \* a field more
      <<"1", COMMA, "1", COMMA, "1", COMMA, "x">>,           \* more, not a number
      <<"1", COMMA, "x", COMMA, "1">>,                       \* not a number
      <<"1", ".", "5", COMMA, SP, "1", COMMA, SP, "2", NUL, NUL>>,  \* padded
      <<>> }                                                 \* empty payload

Messages == WellFormed \cup Variants

\* what an installed strategy's update() can hand back: a mapping that
\* gives every channel, one that leaves a channel out, and one that leaves
\* the other out and has a key that is no channel of the schema
\* (values -7.250004, 1.5 and 2.0) ...
StrategyReturns ==
    { [key \in {"ZMQ_YawOffset", "ZMQ_PitOffset(1)"} |->
           IF key = "ZMQ_YawOffset" THEN -7250004 ELSE 1500000],
      [key \in {"ZMQ_YawOffset"} |-> -7250004],
      [key \in {"ZMQ_PitOffset(1)", "ZMQ_PitOffset(2)"} |->
           IF key = "ZMQ_PitOffset(1)" THEN 1500000 ELSE 2000000] }
\* ... or an exception
StrategyRaises == {"NotImplementedError", "RuntimeError"}

\* ------------------------------------------------------------ wfc_controller
\* times are whole seconds of reported time
\* if (current_time < 60.0): no wake steering yet
Warmup == 60
\* self.t_last_update = -99999
NeverUpdated == -99999
\* self.measurements_history[0][-10:]
MeanWindow == 10
\* self.t_update_rate = update_rate
t_update_rate == UpdateRate

\* ------------------------------------------------------------ state
VARIABLES
    instance,        \* number of wfc_zmq_server objects constructed so far
    pc,              \* position of the current server in runserver
    err,             \* exception that ended runserver, "none" otherwise
    wfc_controller,  \* self.wfc_controller: "None" or "installed"
    socket,          \* self.socket: "open" or "closed"
    pending,         \* REP socket holds a request that has no reply yet
    received,        \* requests received by the process's servers so far
    replied,         \* replies sent by the process's servers so far
    message_in,      \* raw payload of the latest request
    meas,            \* runserver's local `measurements`
    id,              \* runserver's local `id`
    strategy_calls,  \* invocations of wfc_controller.update so far
    strategy_args,   \* arguments of the latest invocation
    strategy_ret,    \* mapping the latest invocation returned
    stored_before,   \* setpoints[id] as the latest invocation found it
    connected,       \* wfc_zmq_connections.connected (class attribute)
    setpoints,       \* self.connections.setpoints
    measurements,    \* self.connections.measurements
    message_out,     \* payload of the latest reply
    senders,         \* ids whose requests the current server has decoded
    leavers,         \* those of them that have sent iStatus = -1
    queue,           \* requests sent to the socket and not yet received
    turbine,         \* the turbine clients: requests sent, waiting, done
    log,             \* the requests received so far, with what the strategy returned
    measurements_history,  \* wfc_controller: per turbine, the last measurements
    opt_yaw_angles,  \* wfc_controller: yaw offset per turbine
    opt_pitch_angles,      \* wfc_controller: pitch offset per turbine
    t_last_update,   \* wfc_controller: reported time of the last recompute
    wfc_calls        \* the calls of wfc_controller.update so far, with their outcome

registry == <<connected, setpoints, measurements>>
locals == <<message_in, meas, id>>
strategy == <<strategy_calls, strategy_args, strategy_ret, stored_before>>
wire == <<pending, received, replied, message_out>>
history == <<senders, leavers>>
clients == <<queue, turbine, log>>
controller == <<measurements_history, opt_yaw_angles, opt_pitch_angles,
                t_last_update, wfc_calls>>
vars == <<instance, pc, err, wfc_controller, socket, registry, locals,
          strategy, wire, history, clients, controller>>

NoArgs == [id |-> 0, current_time |-> 0, measurements |-> <<>>]
EmptyMap == [i \in {} |-> 0]

Terminal == {"shutdown", "error"}

\* wfc_zmq_server.__init__ with the module freshly imported
Init ==
    /\ instance = 1
    /\ pc = "constructed"
    /\ err = "none"
    /\ wfc_controller = "None"
    /\ socket = "open"
    /\ pending = FALSE
    /\ received = 0
    /\ replied = 0
    /\ message_in = <<>>
    /\ meas = <<>>
    /\ id = 0
    /\ strategy_calls = 0
    /\ strategy_args = NoArgs
    /\ strategy_ret = EmptyMap
    /\ stored_before = <<>>
    /\ connected = EmptyMap
    /\ setpoints = EmptyMap
    /\ measurements = EmptyMap
    /\ message_out = <<>>
    /\ senders = {}
    /\ leavers = {}
    /\ queue = <<>>
    /\ turbine = [i \in 1..MaxId |-> [sent |-> 0, waiting |-> FALSE, done |-> FALSE]]
    /\ log = <<>>
    /\ measurements_history = [i \in 1..MaxId |-> [p \in 1..MemorySize |-> <<>>]]
    /\ opt_yaw_angles = [i \in 1..MaxId |-> 0]
    /\ opt_pitch_angles = [i \in 1..MaxId |-> 0]
    /\ t_last_update = NeverUpdated
    /\ wfc_calls = <<>>

\* a further wfc_zmq_server(...) in the same process once runserver has
\* returned to its caller: a new socket and a new wfc_zmq_connections object,
\* while the class attribute `connected` is the one the earlier servers filled
NewServer ==
    /\ pc = "shutdown"
    /\ instance < MaxInstances
    /\ instance' = instance + 1
    /\ pc' = "constructed"
    /\ err' = "none"
    /\ wfc_controller' = "None"
    /\ socket' = "open"
    /\ pending' = FALSE
    /\ message_in' = <<>>
    /\ meas' = <<>>
    /\ id' = 0
    /\ strategy_args' = NoArgs
    /\ strategy_ret' = EmptyMap
    /\ stored_before' = <<>>
    /\ setpoints' = EmptyMap
    /\ measurements' = EmptyMap
    /\ message_out' = <<>>
    /\ UNCHANGED <<connected, received, replied, strategy_calls>>

\* server.wfc_controller = wfc_controller(...)
InstallController ==
    /\ pc = "constructed"
    /\ wfc_controller = "None"
    /\ wfc_controller' = "installed"
    /\ UNCHANGED <<instance, pc, err, socket, registry, locals, strategy, wire>>

\* faulty variant: the connected-count check is the loop's condition and is
\* evaluated before the first receive
RunServerCheckFirst ==
    /\ pc = "constructed"
    /\ IF \E i \in DOMAIN connected : connected[i]
       THEN pc' = "listen" /\ UNCHANGED socket
       ELSE pc' = "shutdown" /\ socket' = "closed"
    /\ UNCHANGED <<instance, err, wfc_controller, registry, locals,
                   strategy, wire>>

\* server.runserver(): connect_zmq = True, first pass through the loop
RunServer ==
    /\ pc = "constructed"
    /\ pc' = "listen"
    /\ UNCHANGED <<instance, err, wfc_controller, socket, registry, locals,
                   strategy, wire>>

\* ------------------------------------------------------------ helpers
\* m.update({key: val}) / m[key] = val on a dict keyed by turbine id
MapPut(m, key, val) ==
    [i \in (DOMAIN m) \cup {key} |-> IF i = key THEN val ELSE m[i]]

\* setpoints.get(s, 0) on the mapping a strategy returned
Get(r, key) == IF key \in DOMAIN r THEN r[key] ELSE 0

RECURSIVE StoreSetpointsHold(_, _, _)
\* faulty variant: a channel the strategy leaves out keeps its stored value
StoreSetpointsHold(d, r, i) ==
    IF i > Len(SetpointSchema) THEN d
    ELSE StoreSetpointsHold(
             IF SetpointSchema[i] \in DOMAIN r
             THEN DictSet(d, SetpointSchema[i], r[SetpointSchema[i]])
             ELSE d,
             r, i + 1)

RECURSIVE StoreSetpointsUpdate(_, _, _)
\* faulty variant: after the schema's channels, every other key of the
\* returned mapping is stored too (setpoints[id].update(returned))
StoreSetpointsUpdate(d, r, i) ==
    IF i <= Len(SetpointSchema)
    THEN StoreSetpointsUpdate(
             DictSet(d, SetpointSchema[i], Get(r, SetpointSchema[i])), r, i + 1)
    ELSE IF \E key \in DOMAIN r : ~DictHas(d, key)
    THEN LET key == CHOOSE key \in DOMAIN r : ~DictHas(d, key)
         IN  StoreSetpointsUpdate(DictSet(d, key, r[key]), r, i)
    ELSE d

RECURSIVE StoreSetpoints(_, _, _)
\* for s in wfc_interface["setpoints"]: setpoints[id][s] = returned.get(s, 0)
StoreSetpoints(d, r, i) ==
    IF i > Len(SetpointSchema) THEN d
    ELSE StoreSetpoints(DictSet(d, SetpointSchema[i], Get(r, SetpointSchema[i])),
                        r, i + 1)

\* self._disconnect(): the socket is closed (the context terminated there is
\* a new one, not the server's)
disconnect == socket' = "closed"

\* faulty variant: counts the registered sessions instead of the connected
NumRegistered(conn) == Cardinality(DOMAIN conn)

\* faulty variant: a turbine of the farm that has not been seen yet counts
\* as connected
NumConnectedFarm(conn) ==
    Cardinality({i \in (1..MaxId) \cup DOMAIN conn : i \notin DOMAIN conn \/ conn[i]})

\* sum(self.connections.connected.values())
NumConnected(conn) == Cardinality({i \in DOMAIN conn : conn[i]})

\* ------------------------------------------------------------ runserver
\* _get_measurements when the poller reports a request whose payload is
\* msg, and id = int(measurements["ZMQ_ID"]); a payload that does not decode
\* raises out of runserver
recv_string(msg) ==
    /\ pc = "listen"
    /\ received < MaxRequests
    /\ LET d == Decode(msg)
       IN  /\ message_in' = msg
           /\ IF d.ok
              THEN /\ meas' = d.dict
                   /\ id' = IntOf(DictGet(d.dict, "ZMQ_ID"))
                   /\ pc' = "add_unique"
                   /\ err' = err
              ELSE /\ pc' = "error"
                   /\ err' = d.error
                   /\ UNCHANGED <<meas, id>>
    /\ received' = received + 1
    /\ pending' = TRUE
    /\ UNCHANGED <<instance, wfc_controller, socket, registry, strategy,
                   replied, message_out>>

\* the request is whatever a peer has sent
get_measurements == \E msg \in Messages : recv_string(msg)

\* faulty variant: the timeout path closes the socket before raising
get_measurements_timeout_close ==
    /\ pc = "listen"
    /\ pc' = "error"
    /\ err' = "IOError"
    /\ disconnect
    /\ UNCHANGED <<instance, wfc_controller, registry, locals, strategy, wire>>

\* _get_measurements when the poll ends without a request:
\* raise IOError("Connection timed out"), which nothing catches
get_measurements_timeout ==
    /\ pc = "listen"
    /\ pc' = "error"
    /\ err' = "IOError"
    /\ UNCHANGED <<instance, wfc_controller, socket, registry, locals,
                   strategy, wire>>

\* faulty variant: the session is initialised without the membership test
add_unique_reset ==
    /\ pc = "add_unique"
    /\ connected' = MapPut(connected, id, TRUE)
    /\ setpoints' = MapPut(setpoints, id, ZeroDict(SetpointSchema))
    /\ measurements' = MapPut(measurements, id, ZeroDict(MeasSchema))
    /\ pc' = "update"
    /\ UNCHANGED <<instance, err, wfc_controller, socket, locals, strategy, wire>>

\* self.connections._add_unique(id)
add_unique ==
    /\ pc = "add_unique"
    /\ IF id \in DOMAIN connected
       THEN UNCHANGED registry
       ELSE /\ connected' = MapPut(connected, id, TRUE)
            /\ setpoints' = MapPut(setpoints, id, ZeroDict(SetpointSchema))
            /\ measurements' = MapPut(measurements, id, ZeroDict(MeasSchema))
    /\ pc' = "update"
    /\ UNCHANGED <<instance, err, wfc_controller, socket, locals, strategy, wire>>

\* faulty variant: the connected flag follows iStatus in both directions
update_measurements_reconnect ==
    /\ pc = "update"
    /\ measurements' = MapPut(measurements, id, meas)
    /\ connected' = MapPut(connected, id, DictGet(meas, "iStatus") # -Scale)
    /\ pc' = "get_setpoints"
    /\ UNCHANGED <<instance, err, wfc_controller, socket, setpoints, locals,
                   strategy, wire>>

\* faulty variant: the new mapping is merged into the stored one, which
\* keeps its Time when it has one
update_measurements_merge ==
    /\ pc = "update"
    /\ measurements' =
          MapPut(measurements, id,
                 IF id \in DOMAIN measurements
                    /\ DictGet(measurements[id], "Time") # 0
                 THEN DictSet(meas, "Time", DictGet(measurements[id], "Time"))
                 ELSE meas)
    /\ IF DictGet(meas, "iStatus") = -Scale
       THEN connected' = MapPut(connected, id, FALSE)
       ELSE UNCHANGED connected
    /\ pc' = "get_setpoints"
    /\ UNCHANGED <<instance, err, wfc_controller, socket, setpoints, locals,
                   strategy, wire>>

\* faulty variant: the status of the request is not looked at, so that no
\* session is ever marked disconnected
update_measurements_noflag ==
    /\ pc = "update"
    /\ measurements' = MapPut(measurements, id, meas)
    /\ pc' = "get_setpoints"
    /\ UNCHANGED <<instance, err, wfc_controller, socket, connected, setpoints,
                   locals, strategy, wire>>

\* faulty variant: a request with iStatus = -1 that leaves no session
\* connected ends the loop at once, without strategy call or reply
update_measurements_hangup ==
    /\ pc = "update"
    /\ measurements' = MapPut(measurements, id, meas)
    /\ IF DictGet(meas, "iStatus") = -Scale
       THEN /\ connected' = MapPut(connected, id, FALSE)
            /\ IF NumConnected(connected') = 0
               THEN disconnect /\ pc' = "shutdown"
               ELSE UNCHANGED socket /\ pc' = "get_setpoints"
       ELSE /\ UNCHANGED <<connected, socket>>
            /\ pc' = "get_setpoints"
    /\ UNCHANGED <<instance, err, wfc_controller, setpoints, locals,
                   strategy, wire>>

\* faulty variant: the measurements of the request are not stored before
\* the strategy is called, which then reads the Time stored earlier
update_measurements_skip ==
    /\ pc = "update"
    /\ IF DictGet(meas, "iStatus") = -Scale
       THEN connected' = MapPut(connected, id, FALSE)
       ELSE UNCHANGED connected
    /\ pc' = "get_setpoints"
    /\ UNCHANGED <<instance, err, wfc_controller, socket, setpoints,
                   measurements, locals, strategy, wire>>

\* faulty variant: a request with iStatus = -1 marks every session
\* disconnected
update_measurements_all ==
    /\ pc = "update"
    /\ measurements' = MapPut(measurements, id, meas)
    /\ IF DictGet(meas, "iStatus") = -Scale
       THEN connected' = [i \in DOMAIN connected |-> FALSE]
       ELSE UNCHANGED connected
    /\ pc' = "get_setpoints"
    /\ UNCHANGED <<instance, err, wfc_controller, socket, setpoints, locals,
                   strategy, wire>>

\* self.connections._update_measurements(id, measurements)
update_measurements ==
    /\ pc = "update"
    /\ measurements' = MapPut(measurements, id, meas)
    /\ IF DictGet(meas, "iStatus") = -Scale
       THEN connected' = MapPut(connected, id, FALSE)
       ELSE UNCHANGED connected
    /\ pc' = "get_setpoints"
    /\ UNCHANGED <<instance, err, wfc_controller, socket, setpoints, locals,
                   strategy, wire>>

\* faulty variant: when the strategy call fails, the measurements stored for
\* the request are taken back (the session's channels are set to 0 again)
get_setpoints_rollback ==
    /\ pc = "get_setpoints"
    /\ LET current_time == DictGet(measurements[id], "Time")
       IN  IF wfc_controller = "None"
           THEN /\ pc' = "error"
                /\ err' = "AttributeError"
                /\ measurements' = MapPut(measurements, id, ZeroDict(MeasSchema))
                /\ UNCHANGED <<socket, setpoints, strategy>>
           ELSE /\ strategy_calls' = strategy_calls + 1
                /\ strategy_args' = [id |-> id, current_time |-> current_time,
                                     measurements |-> meas]
                /\ stored_before' = IF id \in DOMAIN setpoints
                                    THEN setpoints[id] ELSE <<>>
                /\ \/ \E r \in StrategyReturns :
                        /\ strategy_ret' = r
                        /\ IF id \in DOMAIN setpoints
                           THEN /\ setpoints' =
                                     [setpoints EXCEPT
                                        ![id] = StoreSetpoints(setpoints[id], r, 1)]
                                /\ pc' = "send"
                                /\ err' = err
                           ELSE /\ pc' = "error"
                                /\ err' = "KeyError"
                                /\ UNCHANGED setpoints
                        /\ UNCHANGED <<socket, measurements>>
                   \/ \E e \in StrategyRaises :
                        /\ IF e = "NotImplementedError"
                           THEN disconnect
                           ELSE UNCHANGED socket
                        /\ pc' = "error"
                        /\ err' = e
                        /\ measurements' = MapPut(measurements, id, ZeroDict(MeasSchema))
                        /\ UNCHANGED <<setpoints, strategy_ret>>
    /\ UNCHANGED <<instance, wfc_controller, connected, locals, wire>>

\* the try block of runserver: _get_setpoints(id, measurements) and the
\* except clause, which catches NotImplementedError alone
get_setpoints ==
    /\ pc = "get_setpoints"
    /\ LET current_time == DictGet(measurements[id], "Time")
       IN  IF wfc_controller = "None"
           THEN \* None.update: AttributeError, not caught by the except clause
                /\ pc' = "error"
                /\ err' = "AttributeError"
                /\ UNCHANGED <<socket, setpoints, strategy>>
           ELSE /\ strategy_calls' = strategy_calls + 1
                /\ strategy_args' = [id |-> id, current_time |-> current_time,
                                     measurements |-> meas]
                /\ stored_before' = IF id \in DOMAIN setpoints
                                    THEN setpoints[id] ELSE <<>>
                /\ \/ \E r \in StrategyReturns :
                        /\ strategy_ret' = r
                        /\ IF id \in DOMAIN setpoints
                           THEN /\ setpoints' =
                                     [setpoints EXCEPT
                                        ![id] = StoreSetpoints(setpoints[id], r, 1)]
                                /\ pc' = "send"
                                /\ err' = err
                           ELSE \* self.connections.setpoints[id]: KeyError
                                /\ pc' = "error"
                                /\ err' = "KeyError"
                                /\ UNCHANGED setpoints
                        /\ UNCHANGED socket
                   \/ \E e \in StrategyRaises :
                        /\ IF e = "NotImplementedError"
                           THEN disconnect
                           ELSE UNCHANGED socket
                        /\ pc' = "error"
                        /\ err' = e
                        /\ UNCHANGED <<setpoints, strategy_ret>>
    /\ UNCHANGED <<instance, wfc_controller, connected, measurements, locals, wire>>

\* faulty variant: the reply is built but never put on the socket
send_setpoints_skip ==
    /\ pc = "send"
    /\ message_out' = Encode(setpoints[id])
    /\ pc' = "check"
    /\ UNCHANGED <<instance, err, wfc_controller, socket, registry, locals,
                   strategy, pending, received, replied>>

\* self._send_setpoints(id)
send_setpoints ==
    /\ pc = "send"
    /\ message_out' = Encode(setpoints[id])
    /\ pending' = FALSE
    /\ replied' = replied + 1
    /\ pc' = "check"
    /\ UNCHANGED <<instance, err, wfc_controller, socket, registry, locals,
                   strategy, received>>

\* faulty variant: the loop goes on only while more than one session is
\* connected
check_for_disconnect_early ==
    /\ pc = "check"
    /\ IF NumConnected(connected) > 1
       THEN /\ pc' = "listen"
            /\ UNCHANGED socket
       ELSE /\ disconnect
            /\ pc' = "shutdown"
    /\ message_in' = <<>>
    /\ strategy_args' = NoArgs
    /\ strategy_ret' = EmptyMap
    /\ stored_before' = <<>>
    /\ message_out' = <<>>
    /\ UNCHANGED <<instance, err, wfc_controller, registry, meas, id,
                   strategy_calls, pending, received, replied>>

\* connect_zmq = self._check_for_disconnect() and the loop test. The
\* iteration ends here: message_in, the strategy's arguments and result (with
\* the record of what it found stored) and message_out are locals of calls
\* that have returned and are dropped, while
\* runserver's own locals `measurements` and `id` stay.
check_for_disconnect ==
    /\ pc = "check"
    /\ IF NumConnected(connected) > 0
       THEN /\ pc' = "listen"
            /\ UNCHANGED socket
       ELSE /\ disconnect
            /\ pc' = "shutdown"
    /\ message_in' = <<>>
    /\ strategy_args' = NoArgs
    /\ strategy_ret' = EmptyMap
    /\ stored_before' = <<>>
    /\ message_out' = <<>>
    /\ UNCHANGED <<instance, err, wfc_controller, registry, meas, id,
                   strategy_calls, pending, received, replied>>

\* record of who has contacted the current server, read off the payload of
\* a request that went past decoding: its first field is the sender's id,
\* its second the status
Contact ==
    IF pc' = "add_unique"
    THEN LET f == Split(StripNul(message_in'))
             who == IntOf(ParseFloat(f[1]).val)
         IN  /\ senders' = senders \cup {who}
             /\ leavers' = IF ParseFloat(f[2]).val = -Scale
                           THEN leavers \cup {who} ELSE leavers
    ELSE UNCHANGED history

\* the server and its caller, with payloads of any kind arriving in any order
\* (the turbine clients are not looked at)
Next ==
    \/ NewServer /\ senders' = {} /\ leavers' = {} /\ UNCHANGED <<clients, controller>>
    \/ InstallController /\ UNCHANGED <<history, clients, controller>>
    \/ RunServer /\ UNCHANGED <<history, clients, controller>>
    \/ get_measurements /\ Contact /\ UNCHANGED <<clients, controller>>
    \/ get_measurements_timeout /\ UNCHANGED <<history, clients, controller>>
    \/ add_unique /\ UNCHANGED <<history, clients, controller>>
    \/ update_measurements /\ UNCHANGED <<history, clients, controller>>
    \/ get_setpoints /\ UNCHANGED <<history, clients, controller>>
    \/ send_setpoints /\ UNCHANGED <<history, clients, controller>>
    \/ check_for_disconnect /\ UNCHANGED <<history, clients, controller>>

Spec == Init /\ [][Next]_vars

\* ------------------------------------------------------------ turbine clients
\* the server with its peers: each turbine is a request/reply client that
\* sends a request and waits for the reply before it sends the next, the
\* socket queues what has arrived, and the server takes the oldest request.
\* A turbine's k-th request carries Time = k, and its iStatus = -1 request is its last.
send_string(i) ==
    /\ ~turbine[i].waiting /\ ~turbine[i].done
    /\ turbine[i].sent < MaxTime
    /\ Len(log) + Len(queue) < MaxRequests
    /\ \E status \in {1, -1} :
          /\ queue' = Append(queue,
                 Join(<<IntStr(i), IntStr(status), IntStr(turbine[i].sent + 1)>>,
                      <<COMMA>>))
          /\ turbine' = [turbine EXCEPT ![i] =
                 [sent |-> @.sent + 1, waiting |-> TRUE, done |-> status = -1]]
    /\ UNCHANGED <<instance, pc, err, wfc_controller, socket, registry, locals,
                   strategy, wire, history, log, controller>>

\* the reply goes to the peer whose request is pending
reply == turbine' = [turbine EXCEPT ![id].waiting = FALSE]

ConcNext ==
    \/ InstallController /\ UNCHANGED <<history, clients, controller>>
    \/ RunServer /\ wfc_controller = "installed" /\ UNCHANGED <<history, clients, controller>>
    \/ \E i \in 1..MaxId : send_string(i)
    \/ /\ queue # <<>>
       /\ recv_string(Head(queue))
       /\ Contact
       /\ queue' = Tail(queue)
       /\ log' = Append(log, [msg |-> Head(queue), ret |-> EmptyMap])
       /\ UNCHANGED <<turbine, controller>>
    \/ queue = <<>> /\ get_measurements_timeout /\ UNCHANGED <<history, clients, controller>>
    \/ add_unique /\ UNCHANGED <<history, clients, controller>>
    \/ update_measurements /\ UNCHANGED <<history, clients, controller>>
    \/ /\ get_setpoints
       /\ log' = [log EXCEPT ![Len(log)].ret = strategy_ret']
       /\ UNCHANGED <<history, queue, turbine, controller>>
    \/ send_setpoints /\ reply /\ UNCHANGED <<history, queue, log, controller>>
    \/ check_for_disconnect /\ UNCHANGED <<history, clients, controller>>

SpecConc == Init /\ [][ConcNext]_vars

\* ------------------------------------------------------------ fair runs
\* the steps runserver takes on a request it has decoded, with a strategy
\* that returns
Serve ==
    \/ add_unique /\ UNCHANGED <<history, clients, controller>>
    \/ update_measurements /\ UNCHANGED <<history, clients, controller>>
    \/ get_setpoints /\ err' \notin StrategyRaises /\ UNCHANGED <<history, clients, controller>>
    \/ send_setpoints /\ UNCHANGED <<history, clients, controller>>
    \/ check_for_disconnect /\ UNCHANGED <<history, clients, controller>>

\* the server among well-behaved peers: runserver is started with a strategy
\* installed, the strategy returns, and every payload is well formed
LiveNext ==
    \/ NewServer /\ senders' = {} /\ leavers' = {} /\ UNCHANGED <<clients, controller>>
    \/ InstallController /\ UNCHANGED <<history, clients, controller>>
    \/ RunServer /\ wfc_controller = "installed" /\ UNCHANGED <<history, clients, controller>>
    \/ \E msg \in WellFormed : recv_string(msg) /\ Contact /\ UNCHANGED <<clients, controller>>
    \/ Serve

\* runserver is one thread that goes from statement to statement: it does
\* not stop between the receipt of a request and the connected-count check.
\* When the next request arrives is up to the peers.
SpecLive == Init /\ [][LiveNext]_vars /\ WF_vars(Serve)

\* ------------------------------------------------------------ wake steering
\* wake_steering_controller.wfc_controller, called directly as the server's
\* strategy calls it. Times and wind speeds are whole numbers here.

\* minimum_yaw_angle, maximum_yaw_angle handed to the optimiser
MinYaw == -25
MaxYaw == 25

\* the reported times of the calls: from just before wake steering starts
WfcTimes == (Warmup - 1)..(Warmup - 1 + MaxSpan)

\* the measurements dict turbine i reports at time t
Measurement(i, t) ==
    <<[k |-> "ZMQ_ID", v |-> i], [k |-> "Time", v |-> t], [k |-> "HorWindV", v |-> 8]>>

\* what the optimiser may hand back: yaw angles within the limits, one per
\* turbine. The optimisation itself is FLORIS's.
YawResults ==
    { [i \in 1..MaxId |-> 0],
      [i \in 1..MaxId |-> IF i = 1 THEN MaxYaw ELSE MinYaw],
      [i \in 1..MaxId |-> IF i = 1 THEN MinYaw ELSE 0] }

\* lst[-n:]
LastN(lst, n) == SubSeq(lst, IF Len(lst) > n THEN Len(lst) - n + 1 ELSE 1, Len(lst))

\* every turbine's list shifted and written: the rows are one list
update_measurement_history_shared(hist, i, m) ==
    [j \in DOMAIN hist |-> Tail(hist[j]) \o <<m>>]

\* update_measurement_history: ti = id - 1; history[ti][:-1] = history[ti][1:];
\* history[ti][-1] = measurements
update_measurement_history(hist, i, m) ==
    LET row == hist[i]
        n == Len(row)
        shifted == SubSeq(row, 2, n) \o SubSeq(row, n, n)
    IN  [hist EXCEPT ![i] = [shifted EXCEPT ![n] = m]]

\* the three tests optimize_yaw_angles makes before it recomputes
Due(i, current_time) ==
    /\ ~(current_time < Warmup)
    /\ i = 1
    /\ current_time >= t_last_update + t_update_rate

\* the same without the test on the turbine
optimize_yaw_angles_any(i, current_time, raised) ==
    IF ~(~(current_time < Warmup) /\ current_time >= t_last_update + t_update_rate)
    THEN ~raised /\ UNCHANGED <<opt_yaw_angles, t_last_update>>
    ELSE /\ t_last_update' = current_time
         /\ IF \E p \in DOMAIN LastN(measurements_history'[1], MeanWindow) :
                   ~DictHas(LastN(measurements_history'[1], MeanWindow)[p], "HorWindV")
            THEN raised /\ opt_yaw_angles' = opt_yaw_angles
            ELSE ~raised /\ opt_yaw_angles' \in YawResults

\* optimize_yaw_angles, after the history was updated: returns early, or
\* notes the time, averages HorWindV over the last entries of turbine 1
\* (KeyError on an entry that was never written) and takes the optimiser's
\* yaw angles. raised: whether it ended in the KeyError.
optimize_yaw_angles(i, current_time, raised) ==
    IF ~Due(i, current_time)
    THEN ~raised /\ UNCHANGED <<opt_yaw_angles, t_last_update>>
    ELSE /\ t_last_update' = current_time
         /\ IF \E p \in DOMAIN LastN(measurements_history'[1], MeanWindow) :
                   ~DictHas(LastN(measurements_history'[1], MeanWindow)[p], "HorWindV")
            THEN raised /\ opt_yaw_angles' = opt_yaw_angles
            ELSE ~raised /\ opt_yaw_angles' \in YawResults

\* optimize_pitch_angles: return None
optimize_pitch_angles == UNCHANGED opt_pitch_angles

\* the setpoints dict update returns for turbine i
Setpoints(i, yaw, pitch) ==
    [key \in {"ZMQ_YawOffset", "ZMQ_PitOffset(1)", "ZMQ_PitOffset(2)", "ZMQ_PitOffset(3)"} |->
        IF key = "ZMQ_YawOffset" THEN yaw[i] ELSE pitch[i]]

\* wfc_controller.update(id, current_time, measurements)
update(i, current_time, m) ==
    /\ Len(wfc_calls) < MaxCalls
    /\ measurements_history' = update_measurement_history(measurements_history, i, m)
    /\ \E raised \in BOOLEAN :
          /\ optimize_yaw_angles(i, current_time, raised)
          /\ optimize_pitch_angles
          /\ wfc_calls' = Append(wfc_calls,
                 [id |-> i, current_time |-> current_time, measurements |-> m,
                  due |-> Due(i, current_time), raised |-> raised,
                  returned |-> IF raised THEN EmptyMap
                               ELSE Setpoints(i, opt_yaw_angles', opt_pitch_angles')])

\* the turbines call in any order, each with a time of its own
WfcNext ==
    \E i \in 1..MaxId, t \in WfcTimes :
        /\ update(i, t, Measurement(i, t))
        /\ UNCHANGED <<instance, pc, err, wfc_controller, socket, registry, locals,
                       strategy, wire, history, clients>>

SpecWfc == Init /\ [][WfcNext]_vars

\* ------------------------------------------------------------ properties
DecodeErrors == {"ValueError", "IndexError"}
InRequest == {"add_unique", "update", "get_setpoints", "send", "check"}

\* the comma-separated fields of a payload, nulls dropped
Fields(msg) == Split(StripNul(msg))

\* the mapping a payload stands for: schema position j holds field j
ExpectedMeas(msg) ==
    [j \in 1..Len(MeasSchema) |->
        [k |-> MeasSchema[j], v |-> ParseFloat(Fields(msg)[j]).val]]

\* the numbers a client reads from a reply: split on ",", each field parsed
ReplyValues(msg) == [j \in 1..Len(Fields(msg)) |-> ParseFloat(Fields(msg)[j]).val]

\* w is v rounded to Decimals digits after the decimal point
Rounded(v, w) ==
    LET unit == Scale \div Pow10(Decimals)
    IN  w % unit = 0 /\ 2 * Abs(w - v) <= unit

\* C1: receives and replies strictly alternate. A request is received only
\* when every earlier one has its reply, a reply is sent only for a request
\* that has none yet, and an iteration that ends without a fatal error has
\* sent exactly one reply for its request.
C1_Alternation ==
    [][ /\ (received' # received =>
               /\ ~pending /\ pending'
               /\ replied = received
               /\ received' = received + 1 /\ replied' = replied)
        /\ (replied' # replied =>
               /\ pending /\ ~pending'
               /\ received = replied + 1
               /\ replied' = replied + 1 /\ received' = received)
        /\ (pc = "check" => ~pending /\ replied = received)
      ]_vars

\* two requests received and answered, the server waiting for the third
C1_Witness == pc = "listen" /\ received = 2 /\ replied = 2 /\ ~pending

\* C2: when, after a reply, every registered id has connected = FALSE, the
\* connected-count check of that iteration closes the socket and ends the
\* loop, and the server that has shut down receives nothing further.
C2_Shutdown ==
    [][ /\ (pc = "check" /\ (\A i \in DOMAIN connected : ~connected[i]) =>
               pc' = "shutdown" /\ socket' = "closed")
        /\ (pc = "shutdown" \/ socket = "closed" =>
               received' = received /\ replied' = replied)
      ]_vars

\* shut down with two sessions registered, both disconnected
C2_Witness ==
    /\ pc = "shutdown" /\ socket = "closed"
    /\ Cardinality(DOMAIN connected) = 2
    /\ \A i \in DOMAIN connected : ~connected[i]

\* C3: disconnect monotonicity. An id whose connected flag is FALSE stays
\* registered with the flag FALSE in every later state and is not counted
\* as connected; a flag turns FALSE only in the measurement update of a
\* request of that id with iStatus = -1.
C3_DisconnectMonotone ==
    [][ /\ \A i \in DOMAIN connected :
              /\ i \in DOMAIN connected'
              /\ (~connected[i] => ~connected'[i])
              /\ (connected[i] /\ ~connected'[i] =>
                     pc = "update" /\ id = i /\ DictGet(meas, "iStatus") = -Scale)
        /\ NumConnected(connected') + Cardinality({i \in DOMAIN connected : ~connected[i]})
              <= Cardinality(DOMAIN connected')
      ]_vars

\* a disconnected id has sent a later request with iStatus = 1, which has been
\* processed and answered, and its flag is still FALSE
C3_Witness ==
    /\ pc = "check"
    /\ id \in DOMAIN connected /\ ~connected[id]
    /\ DictGet(measurements[id], "iStatus") = Scale

\* C4: a timeout in LISTENING raises out of runserver: the run ends there
\* for good, nothing is received or sent, the registry is unchanged and the
\* socket stays open.
C4_Timeout ==
    [][ /\ (err' = "IOError" /\ err # "IOError" =>
               /\ pc = "listen" /\ pc' = "error"
               /\ socket = "open" /\ socket' = "open"
               /\ UNCHANGED <<connected, setpoints, measurements>>
               /\ UNCHANGED <<pending, received, replied, message_out>>)
        /\ (err = "IOError" => FALSE)
      ]_vars

\* a run that timed out after it had served a request
C4_Witness ==
    /\ pc = "error" /\ err = "IOError" /\ socket = "open"
    /\ received = 1 /\ replied = 1 /\ DOMAIN connected # {}

\* C5: a request met with no strategy installed ends the run with the
\* not-implemented condition, the socket closed and the request unanswered.
C5_NoStrategy ==
    (pc = "error" /\ wfc_controller = "None" /\ err \notin DecodeErrors \cup {"IOError"})
        => (err = "NotImplementedError" /\ socket = "closed" /\ pending)

\* C6: every run that ended with an error has closed its socket.
C6_ErrorClosesSocket == pc = "error" => socket = "closed"

\* C7 as stated: after a processed request every channel of setpoints[id]
\* holds the strategy's value, or 0 for a channel it left out, and the reply
\* carries exactly these values in schema order.
C7_ExactReply ==
    /\ (pc \in {"send", "check"} =>
           setpoints[id] = [j \in 1..Len(SetpointSchema) |->
                               [k |-> SetpointSchema[j],
                                v |-> Get(strategy_ret, SetpointSchema[j])]])
    /\ (pc = "check" =>
           ReplyValues(message_out) = DictValues(setpoints[id]))

\* C7, amended: the stored values are as stated, whatever was stored before;
\* the reply has one field per channel in schema order, and field j is the
\* stored value of channel j rounded to 5 decimals.
C7_RoundedReply ==
    /\ (pc \in {"send", "check"} =>
           setpoints[id] = [j \in 1..Len(SetpointSchema) |->
                               [k |-> SetpointSchema[j],
                                v |-> Get(strategy_ret, SetpointSchema[j])]])
    /\ (pc = "check" =>
           /\ Len(ReplyValues(message_out)) = Len(SetpointSchema)
           /\ \A j \in 1..Len(SetpointSchema) :
                 Rounded(setpoints[id][j].v, ReplyValues(message_out)[j]))

\* a channel that held a value other than 0 was left out by the strategy and
\* is 0 in the registry and in the reply that has been sent
C7_Witness ==
    /\ pc = "check"
    /\ \E j \in 1..Len(SetpointSchema) :
          /\ SetpointSchema[j] \notin DOMAIN strategy_ret
          /\ stored_before[j].v # 0
          /\ setpoints[id][j].v = 0
          /\ ReplyValues(message_out)[j] = 0

C9_LatestMeasurements ==
    [][ /\ (pc \in {"get_setpoints", "send", "check"} =>
               id \in DOMAIN measurements
               /\ measurements[id] = ExpectedMeas(message_in))
        /\ \A i \in DOMAIN measurements :
              (instance' = instance /\ ~(pc = "update" /\ id = i)) =>
                  i \in DOMAIN measurements' /\ measurements'[i] = measurements[i]
      ]_vars

\* the request just served is a later one of an id that had sent iStatus = -1
\* before, and the registry holds the later request's values
C9_Witness ==
    /\ pc = "check"
    /\ id \in DOMAIN connected /\ ~connected[id]
    /\ measurements[id] = ExpectedMeas(message_in)
    /\ DictGet(measurements[id], "iStatus") = Scale

\* C10: _add_unique registers an unseen id with connected = TRUE and every
\* measurement and setpoint channel at 0, and leaves the registry as it is
\* for a known id, whose flag it does not set back to TRUE.
C10_AddUnique ==
    [][ pc = "add_unique" =>
           IF id \in DOMAIN connected
           THEN UNCHANGED <<connected, setpoints, measurements>>
           ELSE /\ DOMAIN connected' = DOMAIN connected \cup {id}
                /\ connected'[id]
                /\ \A i \in DOMAIN connected : connected'[i] = connected[i]
                /\ setpoints' = MapPut(setpoints, id, setpoints'[id])
                /\ measurements' = MapPut(measurements, id, measurements'[id])
                /\ DictKeys(setpoints'[id]) = SetpointSchema
                /\ DictKeys(measurements'[id]) = MeasSchema
                /\ \A j \in 1..Len(SetpointSchema) : setpoints'[id][j].v = 0
                /\ \A j \in 1..Len(MeasSchema) : measurements'[id][j].v = 0
      ]_vars

\* _add_unique has just run for a known id that is disconnected and has
\* setpoints other than 0: nothing was reset
C10_Witness ==
    /\ pc = "update"
    /\ id \in DOMAIN connected /\ ~connected[id]
    /\ id \in DOMAIN setpoints
    /\ \E j \in 1..Len(SetpointSchema) : setpoints[id][j].v # 0
    /\ \E j \in 1..Len(MeasSchema) : measurements[id][j].v # 0

\* C11: in the run of a server that started with an empty registry, once a
\* request has been processed the number of connected sessions is the number
\* of distinct ids that have sent a request and never one with iStatus = -1;
\* after ids 1 and 2 have each sent one request with iStatus = 1 the count
\* is 2 and the server listens again.
C11_ConnectedCount ==
    instance = 1 /\ pc \in {"check", "listen", "shutdown"} =>
        /\ Cardinality({i \in DOMAIN connected : connected[i]})
              = Cardinality(senders \ leavers)
        /\ (pc # "check" /\ received = 2 /\ senders = {1, 2} /\ leavers = {} =>
               /\ pc = "listen"
               /\ \A i \in {1, 2} : connected[i])

\* ids 1 and 2 have each sent one request with iStatus = 1, both have been
\* answered, and the server listens with two connected sessions
C11_Witness ==
    /\ instance = 1 /\ pc = "listen" /\ socket = "open"
    /\ received = 2 /\ replied = 2
    /\ senders = {1, 2} /\ leavers = {}
    /\ DOMAIN connected = {1, 2} /\ connected[1] /\ connected[2]

\* C12: the server is in the clean shutdown state (loop ended without an
\* error, socket closed by the connected-count check) only when no session
\* is connected, and whenever a session is connected after a reply the
\* server goes back to listening and the socket stays open.
C12_ShutdownOnlyAtZero ==
    [][ /\ (pc' = "shutdown" =>
               /\ \A i \in DOMAIN connected' : ~connected'[i]
               /\ err' = "none" /\ socket' = "closed"
               /\ (pc # "shutdown" => pc = "check"))
        /\ (pc = "check" /\ (\E i \in DOMAIN connected : connected[i]) =>
               /\ replied = received
               /\ pc' = "listen"
               /\ socket = "open" /\ socket' = "open")
      ]_vars

\* a reply has gone out to a request with iStatus = -1 while another session
\* is still connected, and the server listens again on the open socket
C12_Witness ==
    /\ pc = "listen" /\ socket = "open" /\ replied = received
    /\ id \in DOMAIN connected /\ ~connected[id]
    /\ DictGet(meas, "iStatus") = -Scale
    /\ \E i \in DOMAIN connected : connected[i]

\* C13: with a strategy installed that always returns, well-formed requests
\* and no receive timeout (a request arrives whenever the server waits), if
\* every turbine that has sent a request eventually sends one with
\* iStatus = -1, then a server that listens eventually reaches the clean
\* shutdown.
C13_Termination ==
    ( /\ [](pc = "listen" => <>(pc # "listen"))
      /\ \A i \in 1..MaxId : [](i \in senders => <>(i \in leavers)) )
    => [](pc = "listen" => <>(pc = "shutdown"))

\* the registry operations applied to one request by themselves: register
\* the sender if unseen, replace its measurements, mark it disconnected on
\* iStatus = -1, and set each schema channel to what the strategy returned
SeqStep(reg, entry) ==
    LET m == ExpectedMeas(entry.msg)
        i == IntOf(m[1].v)
        known == i \in DOMAIN reg.connected
        flag == IF m[2].v = -Scale THEN FALSE
                ELSE IF known THEN reg.connected[i] ELSE TRUE
    IN  [connected |-> MapPut(reg.connected, i, flag),
         measurements |-> MapPut(reg.measurements, i, m),
         setpoints |-> MapPut(reg.setpoints, i,
             [j \in 1..Len(SetpointSchema) |->
                 [k |-> SetpointSchema[j], v |-> Get(entry.ret, SetpointSchema[j])]])]

RECURSIVE Sequential(_)
\* the requests of a log applied one after the other to an empty registry
Sequential(l) ==
    IF l = <<>>
    THEN [connected |-> EmptyMap, measurements |-> EmptyMap, setpoints |-> EmptyMap]
    ELSE SeqStep(Sequential(SubSeq(l, 1, Len(l) - 1)), l[Len(l)])

\* C14: with several turbine clients sending at the same time, the server
\* works on one request at a time and in the order of arrival: at most one
\* request is received and not yet answered, a request is received only
\* when every earlier one has been replied to, it is the oldest one queued,
\* and after each reply the registry is what the requests received so far
\* give when applied one after the other in that order.
C14_Serial ==
    [][ /\ Len(log) = received /\ received - replied \in {0, 1}
        /\ (pending <=> received - replied = 1)
        /\ (received' # received =>
               /\ replied = received /\ ~pending
               /\ queue # <<>> /\ log'[Len(log')].msg = Head(queue)
               /\ queue' = Tail(queue))
        /\ (pc' \in {"check", "listen", "shutdown"} /\ err' = "none" =>
               LET reg == Sequential(log')
               IN  /\ connected' = reg.connected
                   /\ measurements' = reg.measurements
                   /\ setpoints' = reg.setpoints)
      ]_vars

\* two turbines have sent before either was answered; the server has replied
\* to both, one after the other, while a third request waits in the queue
C14_Witness ==
    /\ pc = "check" /\ Len(log) = 2 /\ replied = 2 /\ queue # <<>>
    /\ \A i \in 1..MaxId : i <= 2 => turbine[i].sent >= 1
    /\ ExpectedMeas(log[1].msg)[1].v # ExpectedMeas(log[2].msg)[1].v
    /\ DOMAIN setpoints = {1, 2}
    /\ setpoints[1] # setpoints[2]

\* C15: in every state and for every id that has a session in a server's
\* registry, the keys of setpoints[id] are the channels of the setpoint
\* schema, in the schema's order: a key the strategy returns that is not in
\* the schema is neither stored nor sent, and every reply has as many
\* fields as the schema has channels.
C15_SchemaKeys ==
    /\ \A i \in DOMAIN setpoints : DictKeys(setpoints[i]) = SetpointSchema
    /\ (pc = "check" =>
           /\ Len(Split(message_out)) = Len(SetpointSchema)
           /\ message_out = Encode([j \in 1..Len(SetpointSchema) |->
                  [k |-> SetpointSchema[j],
                   v |-> Get(strategy_ret, SetpointSchema[j])]]))

\* the strategy has returned a mapping with a key that is no channel of the
\* schema, and the reply to that request has gone out
C15_Witness ==
    /\ pc = "check" /\ replied = received
    /\ \E key \in DOMAIN strategy_ret :
          \A j \in 1..Len(SetpointSchema) : SetpointSchema[j] # key
    /\ DictKeys(setpoints[id]) = SetpointSchema
    /\ Len(Split(message_out)) = Len(SetpointSchema)

\* C16: a request with iStatus = -1 goes through the same steps as any
\* other: the strategy is invoked for it, one reply is sent to it, and the
\* socket is closed only after that reply; when the request leaves no
\* session connected (also when it is the first and only request of the
\* server), the server shuts down without receiving again.
C16_LastRequest ==
    [][ (pc \in InRequest /\ DictGet(meas, "iStatus") = -Scale) =>
           /\ (pc = "update" =>
                  pc' = "get_setpoints" /\ socket' = "open" /\ ~connected'[id])
           /\ (pc = "get_setpoints" /\ wfc_controller = "installed" =>
                  /\ strategy_calls' = strategy_calls + 1
                  /\ strategy_args'.id = id
                  /\ strategy_args'.measurements = meas)
           /\ (pc = "send" =>
                  /\ replied' = replied + 1 /\ replied' = received
                  /\ socket = "open" /\ socket' = "open" /\ pc' = "check")
           /\ (pc # "send" => replied' = replied)
           /\ (socket' = "closed" /\ err' = "none" =>
                  pc = "check" /\ replied = received /\ ~pending)
           /\ (pc = "check" /\ (\A i \in DOMAIN connected : ~connected[i]) =>
                  pc' = "shutdown" /\ socket' = "closed" /\ received' = received)
      ]_vars

\* the first and only request of a server had iStatus = -1: the strategy was
\* invoked once, one reply went out, and the server has shut down
C16_Witness ==
    /\ instance = 1 /\ pc = "shutdown" /\ socket = "closed"
    /\ received = 1 /\ replied = 1 /\ strategy_calls = 1
    /\ DictGet(meas, "iStatus") = -Scale
    /\ DOMAIN connected = {id} /\ ~connected[id]

\* C17: for every received request the steps come in this order: decode,
\* registration of the id if unseen, update of the measurements, one call
\* of the strategy, update of the setpoints, reply, connected-count check;
\* the strategy is called once per decoded request, with the id, the Time
\* and the measurements of that request.
C17_StepOrder ==
    [][ LET m == ExpectedMeas(message_in)
        IN  /\ (received' # received =>
                   /\ pc = "listen" /\ pc' \in {"add_unique", "error"}
                   /\ UNCHANGED <<registry, strategy_calls, replied>>)
            /\ (pc = "add_unique" =>
                   /\ pc' = "update" /\ id \in DOMAIN connected'
                   /\ (id \in DOMAIN measurements => measurements' = measurements)
                   /\ UNCHANGED <<strategy_calls, replied>>)
            /\ (pc = "update" =>
                   /\ pc' = "get_setpoints" /\ measurements'[id] = m
                   /\ UNCHANGED <<setpoints, strategy_calls, replied>>)
            /\ (pc = "get_setpoints" /\ wfc_controller = "installed" =>
                   /\ strategy_calls' = strategy_calls + 1
                   /\ strategy_args' = [id |-> IntOf(DictGet(m, "ZMQ_ID")),
                                        current_time |-> DictGet(m, "Time"),
                                        measurements |-> m]
                   /\ pc' \in {"send", "error"}
                   /\ (pc' = "send" =>
                          \A j \in 1..Len(SetpointSchema) :
                              setpoints'[id][j].v = Get(strategy_ret', SetpointSchema[j]))
                   /\ UNCHANGED <<connected, measurements, replied>>)
            /\ (pc = "send" =>
                   /\ pc' = "check" /\ replied' = replied + 1
                   /\ message_out' = Encode(setpoints[id])
                   /\ UNCHANGED <<registry, strategy_calls>>)
            /\ (pc = "check" =>
                   /\ pc' \in {"listen", "shutdown"}
                   /\ UNCHANGED <<registry, strategy_calls, replied, received>>)
            /\ (strategy_calls' # strategy_calls => pc = "get_setpoints")
      ]_vars

\* the strategy has been called for the second request of a turbine, with
\* the Time of that request and not the one stored from its first
C17_Witness ==
    /\ pc = "send" /\ received = 2 /\ strategy_calls = 2
    /\ strategy_args.id = id
    /\ strategy_args.current_time = 2 * Scale
    /\ DictGet(ExpectedMeas(message_in), "Time") = 2 * Scale
    /\ DOMAIN measurements = {id}

\* C18: while a server works on a request from one id, the measurements,
\* the setpoints and the connected flag of every other id stay as they are;
\* a connected flag goes from TRUE to FALSE only in the measurement update
\* of a request from that same id with iStatus = -1, and with no other
\* event (a timeout, a request of another turbine, the end of a run).
C18_Frame ==
    [][ \A B \in DOMAIN connected :
           /\ (pc \notin InRequest \/ B # id =>
                  /\ B \in DOMAIN connected' /\ connected'[B] = connected[B]
                  /\ (instance' = instance /\ B \in DOMAIN setpoints =>
                         B \in DOMAIN setpoints' /\ setpoints'[B] = setpoints[B])
                  /\ (instance' = instance /\ B \in DOMAIN measurements =>
                         /\ B \in DOMAIN measurements'
                         /\ measurements'[B] = measurements[B]))
           /\ (connected[B] /\ (B \notin DOMAIN connected' \/ ~connected'[B]) =>
                  /\ pc = "update" /\ id = B
                  /\ ParseFloat(Fields(message_in)[2]).val = -Scale)
      ]_vars

\* a request with iStatus = -1 has been answered while another turbine has
\* a connected session with measurements and setpoints of its own
C18_Witness ==
    /\ pc = "check" /\ ~connected[id]
    /\ \E B \in DOMAIN setpoints :
          /\ B # id /\ connected[B]
          /\ DictGet(measurements[B], "Time") # 0
          /\ \E j \in 1..Len(SetpointSchema) : setpoints[B][j].v # 0
          /\ setpoints[B] # setpoints[id]

\* C19: in every server instance of a process, also one created after an
\* earlier instance has registered ids, an id that has an entry in the
\* connected table has a setpoint mapping and a measurement mapping in that
\* instance's registry when the instance updates the setpoints for it, so
\* that a request from a known id never fails on a missing session entry.
C19_SessionEntries ==
    /\ (pc = "get_setpoints" /\ id \in DOMAIN connected =>
           id \in DOMAIN setpoints /\ id \in DOMAIN measurements)
    /\ err # "KeyError"

\* C20: the shutdown decision looks at the sessions registered so far only:
\* when every turbine that has contacted the server has sent iStatus = -1,
\* the server shuts down, also while other turbines of the farm have not
\* sent their first request yet, and what those turbines send afterwards
\* is never received nor answered.
C20_ShutdownLeavesLatecomers ==
    [][ /\ (pc = "check" /\ senders \subseteq leavers =>
               /\ pc' \in {"check", "shutdown"}
               /\ (pc' = "shutdown" => socket' = "closed")
               /\ received' = received)
        /\ (pc = "shutdown" =>
               /\ pc' = "shutdown" /\ socket' = "closed"
               /\ received' = received /\ replied' = replied /\ log' = log
               /\ SubSeq(queue', 1, Len(queue)) = queue
               /\ \A i \in 1..MaxId : turbine[i].waiting => turbine'[i].waiting)
      ]_vars

\* the server has shut down after its only client so far sent iStatus = -1,
\* and the first request of another turbine sits in the queue unanswered
C20_Witness ==
    /\ pc = "shutdown" /\ socket = "closed"
    /\ senders # {} /\ senders = leavers
    /\ \E i \in 1..MaxId :
          /\ i \notin senders /\ i \notin DOMAIN connected
          /\ turbine[i].sent = 1 /\ turbine[i].waiting
          /\ Len(queue) = 1
          /\ IntOf(ParseFloat(Fields(queue[1])[1]).val) = i

\* the exceptions with which a strategy call fails: no strategy installed
\* (None.update), or the strategy raising
StrategyFailures == {"AttributeError"} \cup StrategyRaises

\* C21: when the strategy call fails for a request (strategy missing or
\* raising), what the registry took from that request is not rolled back:
\* the session stays registered, measurements[id] holds the values of the
\* failing request and connected[id] is FALSE if it carried iStatus = -1,
\* while setpoints[id] keeps what it held; no reply is sent and the request
\* is not tried again.
C21_NoRollback ==
    [][ /\ (pc = "get_setpoints" /\ pc' = "error" /\ err' \in StrategyFailures =>
               /\ UNCHANGED <<connected, setpoints, measurements>>
               /\ replied' = replied /\ pending' /\ message_out' = message_out)
        /\ (pc' = "error" /\ err' \in StrategyFailures =>
               LET m == ExpectedMeas(message_in')
               IN  /\ id' \in DOMAIN connected'
                   /\ measurements'[id'] = m
                   /\ (DictGet(m, "iStatus") = -Scale => ~connected'[id'])
                   /\ replied' = received' - 1 /\ pending')
        /\ (pc = "error" =>
               UNCHANGED <<received, replied, strategy_calls, registry, pc>>)
      ]_vars

\* the strategy has raised on a turbine's request with iStatus = -1: the
\* session is disconnected, holds that request's measurements and the
\* setpoints of the turbine's earlier request, and no reply has gone out
C21_Witness ==
    /\ pc = "error" /\ err = "RuntimeError" /\ pending
    /\ received = 2 /\ replied = 1 /\ strategy_calls = 2
    /\ ~connected[id]
    /\ DictGet(measurements[id], "iStatus") = -Scale
    /\ measurements[id] = ExpectedMeas(message_in)
    /\ id \in DOMAIN setpoints
    /\ \E j \in 1..Len(SetpointSchema) : setpoints[id][j].v # 0
    /\ setpoints[id] = stored_before

\* C22: the connected-count check is made only after a reply has been sent:
\* a server that has just been started and whose registry holds no
\* connected session starts to listen and waits for the first request
\* instead of shutting down, and it goes on listening until a request
\* arrives or the timeout fires.
C22_CheckAfterReply ==
    [][ /\ (pc = "constructed" /\ pc' # pc =>
               pc' = "listen" /\ socket' = "open" /\ err' = "none")
        /\ (pc = "listen" =>
               /\ socket = "open"
               /\ \/ pc' = "listen" /\ UNCHANGED <<socket, received, replied>>
                  \/ received' = received + 1 /\ pc' \in {"add_unique", "error"}
                  \/ pc' = "error" /\ err' = "IOError" /\ received' = received)
        /\ (pc' = "shutdown" /\ pc # "shutdown" =>
               /\ pc = "check" /\ message_out # <<>>
               /\ replied = received /\ ~pending)
      ]_vars

\* a second server has been started while the connected table holds only
\* disconnected sessions of the first: it listens, no request received yet
C22_Witness ==
    /\ instance = 2 /\ pc = "listen" /\ socket = "open"
    /\ senders = {} /\ message_in = <<>>
    /\ DOMAIN connected # {}
    /\ \A i \in DOMAIN connected : ~connected[i]
    /\ setpoints = EmptyMap

\* the call of update that a step makes
LastCall == wfc_calls'[Len(wfc_calls')]
\* the calls in which optimize_yaw_angles went past its three tests
Recomputes(calls) == {j \in 1..Len(calls) : calls[j].due}

\* C23: optimize_yaw_angles recomputes and sets t_last_update to current_time
\* only in a call with current_time >= 60, id = 1 and current_time >=
\* t_last_update + t_update_rate, and in such a call t_last_update becomes
\* current_time. In every other call opt_yaw_angles and t_last_update stay as
\* they are, so what update would return for any turbine stays as it is, and
\* the call returns the held values. Two recomputes are at least
\* t_update_rate apart in reported time.
C23_ZeroOrderHold ==
    [][ Len(wfc_calls') > Len(wfc_calls) =>
          LET c == LastCall
              cond == /\ c.current_time >= Warmup
                      /\ c.id = 1
                      /\ c.current_time >= t_last_update + t_update_rate
          IN  /\ c.due = cond
              /\ (opt_yaw_angles' # opt_yaw_angles \/ t_last_update' # t_last_update => cond)
              /\ (cond => t_last_update' = c.current_time)
              /\ (~cond =>
                     /\ UNCHANGED <<opt_yaw_angles, t_last_update>>
                     /\ \A i \in 1..MaxId :
                            Setpoints(i, opt_yaw_angles', opt_pitch_angles')
                              = Setpoints(i, opt_yaw_angles, opt_pitch_angles)
                     /\ ~c.raised
                     /\ c.returned = Setpoints(c.id, opt_yaw_angles, opt_pitch_angles))
              /\ (~c.raised =>
                     /\ c.returned["ZMQ_YawOffset"] = opt_yaw_angles'[c.id]
                     /\ c.returned["ZMQ_PitOffset(1)"] = opt_pitch_angles'[c.id])
              /\ \A j, k \in Recomputes(wfc_calls') :
                     j < k => wfc_calls'[k].current_time - wfc_calls'[j].current_time
                                >= t_update_rate
      ]_vars

\* turbine 1 filled its history, the angles were recomputed at 60 s, held for
\* turbine 2 one second later, and recomputed again at 60 s + t_update_rate
C23_Witness ==
    /\ Len(wfc_calls) = 4
    /\ wfc_calls[2].due /\ ~wfc_calls[2].raised /\ wfc_calls[2].current_time = Warmup
    /\ wfc_calls[2].returned["ZMQ_YawOffset"] = MaxYaw
    /\ wfc_calls[3].id = 2 /\ ~wfc_calls[3].due
    /\ wfc_calls[3].returned["ZMQ_YawOffset"] = MinYaw
    /\ wfc_calls[4].due /\ ~wfc_calls[4].raised
    /\ wfc_calls[4].current_time = Warmup + t_update_rate
    /\ wfc_calls[4].returned["ZMQ_YawOffset"] = MinYaw
    /\ t_last_update = Warmup + t_update_rate

\* the measurements turbine i handed to update so far, in arrival order
Arrived(calls, i) ==
    LET mine == SelectSeq(calls, LAMBDA c : c.id = i)
    IN  [q \in 1..Len(mine) |-> mine[q].measurements]
Min(a, b) == IF a < b THEN a ELSE b

\* C24: update_measurement_history keeps a sliding window per turbine. After a
\* call for id with measurements m that turbine's history still has
\* memory_size entries, its last entry is m, every earlier entry has moved
\* one position towards the front (the oldest is gone), and the histories of
\* the other turbines are as they were; after k calls for a turbine its
\* window ends with the last min(k, memory_size) measurements in arrival
\* order, and the entries before them were never written.
C24_SlidingWindow ==
    [][ Len(wfc_calls') > Len(wfc_calls) =>
          LET c == LastCall
              row == measurements_history[c.id]
              row2 == measurements_history'[c.id]
              seen == Arrived(wfc_calls', c.id)
              k == Len(seen)
              n == Min(k, MemorySize)
          IN  /\ \A i \in 1..MaxId : Len(measurements_history'[i]) = MemorySize
              /\ row2[MemorySize] = c.measurements
              /\ \A p \in 1..(MemorySize - 1) : row2[p] = row[p + 1]
              /\ \A i \in 1..MaxId :
                     i # c.id => measurements_history'[i] = measurements_history[i]
              /\ \A q \in 1..n : row2[MemorySize - n + q] = seen[k - n + q]
              /\ \A p \in 1..(MemorySize - n) : row2[p] = <<>>
      ]_vars

\* turbine 1 has reported more often than its window is long, so its first
\* report is gone; turbine 2, which reported once, still has an entry that
\* was never written
C24_Witness ==
    /\ Len(Arrived(wfc_calls, 1)) = MemorySize + 1
    /\ Len(Arrived(wfc_calls, 2)) = 1
    /\ wfc_calls[1].id = 1 /\ wfc_calls[2].id = 2
    /\ \A p \in 1..MemorySize :
           measurements_history[1][p] = Arrived(wfc_calls, 1)[p + 1]
    /\ \A p \in 1..MemorySize :
           measurements_history[1][p] # wfc_calls[1].measurements
    /\ measurements_history[2][1] = <<>>
    /\ measurements_history[2][MemorySize] = wfc_calls[2].measurements

====
